---------------------------- MODULE Spec2Model ----------------------------
(***************************************************************************)
(* Model of CustomPromptProcessor (src/src/customPromptProcessor.ts): the  *)
(* custom prompt expansion (extractVariablesFromPrompt,                    *)
(* processCustomPrompt) and the prompt store (getAllPrompts, getPrompt,    *)
(* savePrompt, updatePrompt, deletePrompt).                                *)
(*                                                                         *)
(* A string is a sequence of tokens: one token per syntax character, per   *)
(* letter of a title, tag or heading, per word (activeNote), per fixed     *)
(* text of the code and per note content, so that a returned prompt is     *)
(* again one flat sequence.  No operation of the code cuts inside a word.  *)
(***************************************************************************)
EXTENDS Naturals, Sequences, FiniteSets, TLC

----------------------------------------------------------------------------
(* Bounds of the model *)

\* a template is the concatenation of at most MaxFrags fragments
MaxFrags == 3

\* the clock of the usage timestamps stops at MaxClock
MaxClock == 2

----------------------------------------------------------------------------
(* String primitives of JavaScript, on sequences of characters *)

\* `undefined` / `null`: no string is this sequence (its only element is no token of a string)
Undefined == <<"undefined">>

\* the lower-case form of the words and letters that have upper-case letters
UpperToLower == [c \in {"activeNote", "ActiveNote", "A", "B", "E", "H", "M"} |->
                   CASE c \in {"activeNote", "ActiveNote"} -> "activenote"
                     [] c = "A" -> "a" [] c = "B" -> "b" [] c = "E" -> "e"
                     [] c = "H" -> "h" [] c = "M" -> "m"]

\* String.prototype.toLowerCase
ToLowerCase(s) == [i \in 1..Len(s) |->
                     IF s[i] \in DOMAIN UpperToLower THEN UpperToLower[s[i]] ELSE s[i]]

IsSpace(c) == c \in {" ", "\n"}

RECURSIVE TrimStart(_)
TrimStart(s) == IF s # <<>> /\ IsSpace(Head(s)) THEN TrimStart(Tail(s)) ELSE s

RECURSIVE TrimEnd(_)
TrimEnd(s) == IF s # <<>> /\ IsSpace(s[Len(s)]) THEN TrimEnd(SubSeq(s, 1, Len(s) - 1)) ELSE s

\* String.prototype.trim
Trim(s) == TrimEnd(TrimStart(s))

\* whether sub occurs in s at position p
OccursAt(s, sub, p) ==
    /\ p >= 1
    /\ p + Len(sub) - 1 <= Len(s)
    /\ \A k \in 1..Len(sub) : s[p + k - 1] = sub[k]

\* String.prototype.includes
Includes(s, sub) == \E p \in 1..(Len(s) + 1) : OccursAt(s, sub, p)

\* String.prototype.startsWith
StartsWith(s, sub) == OccursAt(s, sub, 1)

\* String.prototype.endsWith
EndsWith(s, sub) == Len(sub) <= Len(s) /\ OccursAt(s, sub, Len(s) - Len(sub) + 1)

\* the first position >= p at which sub occurs in s, 0 when there is none
RECURSIVE IndexFrom(_, _, _)
IndexFrom(s, sub, p) ==
    IF p + Len(sub) - 1 > Len(s) THEN 0
    ELSE IF OccursAt(s, sub, p) THEN p
    ELSE IndexFrom(s, sub, p + 1)

\* String.prototype.split on a one-character separator
RECURSIVE Split(_, _)
Split(s, sep) ==
    LET q == IndexFrom(s, <<sep>>, 1)
    IN  IF q = 0 THEN <<s>>
        ELSE <<SubSeq(s, 1, q - 1)>> \o Split(SubSeq(s, q + 1, Len(s)), sep)

\* Array.prototype.join
RECURSIVE Join(_, _)
Join(parts, sep) ==
    IF parts = <<>> THEN <<>>
    ELSE IF Len(parts) = 1 THEN parts[1]
    ELSE parts[1] \o sep \o Join(Tail(parts), sep)

\* String.prototype.replace(/X/g, by) for a literal X: non-overlapping, left to right
RECURSIVE ReplaceAll(_, _, _)
ReplaceAll(s, sub, by) ==
    LET q == IndexFrom(s, sub, 1)
    IN  IF q = 0 THEN s
        ELSE SubSeq(s, 1, q - 1) \o by
               \o ReplaceAll(SubSeq(s, q + Len(sub), Len(s)), sub, by)

----------------------------------------------------------------------------
(* The two regular expressions *)

\* all matches of /\{([^}]+)\}/g from position p on: the captured groups, in order.
\* A match starts at a "{" whose next character is not "}" and ends at the
\* first "}" after it ([^}]+ is greedy and cannot cross a "}").
RECURSIVE VariableMatchesFrom(_, _)
VariableMatchesFrom(s, p) ==
    IF p > Len(s) THEN <<>>
    ELSE LET close == IndexFrom(s, <<"}">>, p + 1)
         IN  IF s[p] = "{" /\ close > p + 1
             THEN <<SubSeq(s, p + 1, close - 1)>> \o VariableMatchesFrom(s, close + 1)
             ELSE VariableMatchesFrom(s, p + 1)

variableRegex(s) == VariableMatchesFrom(s, 1)

\* the [[...]] spans of a prompt, in order: the text between "[[" and the
\* first "]]" after it
RECURSIVE NoteTitlesFrom(_, _)
NoteTitlesFrom(s, p) ==
    IF p > Len(s) THEN <<>>
    ELSE LET close == IndexFrom(s, <<"]", "]">>, p + 2)
         IN  IF OccursAt(s, <<"[", "[">>, p) /\ close > 0
             THEN <<SubSeq(s, p + 2, close - 1)>> \o NoteTitlesFrom(s, close + 2)
             ELSE NoteTitlesFrom(s, p + 1)

extractNoteTitles(s) == NoteTitlesFrom(s, 1)

----------------------------------------------------------------------------
(* The vault: the notes the expansion reads (fixed during an expansion) *)

Notes == <<"A", "B", "E">>

NoFile == "none"

\* the text of a note: E is an empty note
NoteText == [n \in {"A", "B", "E"} |-> IF n = "E" THEN <<>> ELSE <<"content-of-" \o n>>]

NoteTags == [n \in {"A", "B", "E"} |-> IF n = "E" THEN {} ELSE {<<"t">>}]

\* getFileName: the display name of a note
getFileName(file) == <<file>>

\* file.path
NotePath(file) == <<file, ".", "m", "d">>

\* getFileContent: the whole text, or the section under a heading
getFileContent(file, heading) ==
    IF NoteText[file] = <<>> THEN <<>>
    ELSE IF heading = Undefined \/ heading = <<>> THEN NoteText[file]
    ELSE NoteText[file] \o <<"#">> \o heading

\* getNoteFileFromTitle: the note of that display name, if any
getNoteFileFromTitle(title) ==
    IF \E i \in 1..Len(Notes) : getFileName(Notes[i]) = title
    THEN Notes[CHOOSE i \in 1..Len(Notes) : getFileName(Notes[i]) = title]
    ELSE NoFile

\* getNotesFromTags: the notes carrying any of the tags, in listing order
getNotesFromTags(tagNames) ==
    LET Keep(n) == \E k \in 1..Len(tagNames) : tagNames[k] \in NoteTags[n]
    IN  SelectSeq(Notes, Keep)

\* getNotesFromPath: the notes whose path is the pattern, in listing order
getNotesFromPath(path) ==
    LET Keep(n) == NotePath(n) = path
    IN  SelectSeq(Notes, Keep)

\* processVariableNameForNotePath: [[title]] names the note title.md
processVariableNameForNotePath(variableName) ==
    LET v == Trim(variableName)
    IN  IF StartsWith(v, <<"[", "[">>) /\ EndsWith(v, <<"]", "]">>) /\ Len(v) >= 4
        THEN Trim(SubSeq(v, 3, Len(v) - 2)) \o <<".", "m", "d">>
        ELSE v

----------------------------------------------------------------------------
(* extractVariablesFromPrompt *)

activenote == <<"activenote">>

\* the notes with content that the files yield, in order (the loops over noteFiles)
RECURSIVE NotesWithContent(_)
NotesWithContent(files) ==
    IF files = <<>> THEN <<>>
    ELSE LET content == getFileContent(Head(files), Undefined)
         IN  (IF content # <<>>
              THEN <<[name |-> getFileName(Head(files)), content |-> content]>>
              ELSE <<>>) \o NotesWithContent(Tail(files))

\* the array `notes` of one iteration of the while loop
VariableNotes(variableName, active) ==
    IF ToLowerCase(variableName) = activenote
    THEN IF active # NoFile THEN NotesWithContent(<<active>>) ELSE <<>>
    ELSE IF StartsWith(variableName, <<"#">>)
    THEN LET parts    == Split(SubSeq(variableName, 2, Len(variableName)), ",")
             tagNames == [k \in 1..Len(parts) |-> Trim(parts[k])]
         IN  NotesWithContent(getNotesFromTags(tagNames))
    ELSE NotesWithContent(getNotesFromPath(processVariableNameForNotePath(variableName)))

\* VariableNotices with the warning in the branches of the tags and paths only
VariableNoticesPathOnly(span, variableName, active) ==
    IF ToLowerCase(variableName) = activenote
    THEN IF active = NoFile
         THEN <<[text |-> "No active note found.", name |-> <<>>, span |-> span]>>
         ELSE <<>>
    ELSE IF VariableNotes(variableName, active) = <<>>
    THEN <<[text |-> "Warning: No valid notes found for the provided path",
            name |-> variableName, span |-> span]>>
    ELSE <<>>

\* the Notices one iteration of the while loop raises, for the span-th match
VariableNotices(span, variableName, active) ==
    (IF ToLowerCase(variableName) = activenote /\ active = NoFile
     THEN <<[text |-> "No active note found.", name |-> <<>>, span |-> span]>>
     ELSE <<>>)
    \o
    (IF VariableNotes(variableName, active) = <<>>
     THEN <<[text |-> "Warning: No valid notes found for the provided path",
             name |-> variableName, span |-> span]>>
     ELSE <<>>)

\* MarkdownContent without the "## name" line of each note
MarkdownContentBare(notes) ==
    Join([k \in 1..Len(notes) |-> notes[k].content], <<"\n", "\n">>)

\* notes.map(note => `## ${note.name}\n\n${note.content}`).join("\n\n")
MarkdownContent(notes) ==
    Join([k \in 1..Len(notes) |->
            <<"#", "#", " ">> \o notes[k].name \o <<"\n", "\n">> \o notes[k].content],
         <<"\n", "\n">>)

\* what the while loop pushes to variablesWithContent, from the span-th match on
RECURSIVE VariablesWithContent(_, _, _)
VariablesWithContent(matches, span, active) ==
    IF span > Len(matches) THEN <<>>
    ELSE (IF Len(VariableNotes(Trim(matches[span]), active)) > 0
          THEN <<MarkdownContent(VariableNotes(Trim(matches[span]), active))>>
          ELSE <<>>)
         \o VariablesWithContent(matches, span + 1, active)

\* the Notices the while loop raises, from the span-th match on
RECURSIVE ExtractNotices(_, _, _)
ExtractNotices(matches, span, active) ==
    IF span > Len(matches) THEN <<>>
    ELSE VariableNotices(span, Trim(matches[span]), active)
         \o ExtractNotices(matches, span + 1, active)

extractVariablesFromPrompt(prompt, active) ==
    [variablesWithContent |-> VariablesWithContent(variableRegex(prompt), 1, active),
     notices              |-> ExtractNotices(variableRegex(prompt), 1, active)]

----------------------------------------------------------------------------
(* processCustomPrompt *)

\* One `additionalInfo += ...` of processCustomPrompt.  kind is "selection",
\* "variable" or "link"; label and content are the two interpolated texts;
\* src is the index i of the loop that appended it; file and heading are the
\* arguments of the getFileContent call of a link.
Block(kind, label, content, src, file, heading) ==
    [kind |-> kind, label |-> label, content |-> content, src |-> src,
     file |-> file, heading |-> heading]

\* the text one block adds to additionalInfo
BlockText(b) ==
    IF b.kind = "selection"
    THEN b.label \o <<":", "\n", "\n", " ">> \o b.content
    ELSE IF b.kind = "variable"
    THEN <<"\n", "\n">> \o b.label \o <<":", "\n", "\n">> \o b.content
    ELSE <<"\n", "\n", "[", "[">> \o b.label \o <<"]", "]", ":", "\n", "\n">> \o b.content

RECURSIVE AdditionalInfo(_)
AdditionalInfo(blocks) ==
    IF blocks = <<>> THEN <<>> ELSE BlockText(Head(blocks)) \o AdditionalInfo(Tail(blocks))

\* activeNoteContent after the `if (processedPrompt.includes("{}"))` statement
ActiveNoteContent(prompt, selected, active) ==
    IF Includes(prompt, <<"{", "}">>) /\ selected = <<>> /\ active # NoFile
    THEN getFileContent(active, Undefined)
    ELSE Undefined

\* the block of the `if (processedPrompt.includes("{}"))` statement
SelectionBlocks(prompt, selected, active) ==
    IF ~Includes(prompt, <<"{", "}">>) THEN <<>>
    ELSE IF selected # <<>>
    THEN <<Block("selection", <<"selectedText">>, selected, 0, NoFile, Undefined)>>
    ELSE IF active # NoFile
    THEN <<Block("selection", <<"selectedText (entire active note)">>,
                 getFileContent(active, Undefined), 0, active, Undefined)>>
    ELSE <<Block("selection", <<"selectedText">>,
                 <<"(No selected text or active note available)">>, 0, NoFile, Undefined)>>

\* ProcessedPrompt with replace("{}", ...) in place of replace(/\{\}/g, ...):
\* only the first {} is replaced
ProcessedPromptFirstOnly(prompt) ==
    LET q == IndexFrom(prompt, <<"{", "}">>, 1)
    IN  IF q = 0 THEN prompt
        ELSE SubSeq(prompt, 1, q - 1) \o <<"{", "selectedText", "}">>
               \o SubSeq(prompt, q + 2, Len(prompt))

\* processedPrompt after the same statement
ProcessedPrompt(prompt) ==
    IF Includes(prompt, <<"{", "}">>)
    THEN ReplaceAll(prompt, <<"{", "}">>, <<"{", "selectedText", "}">>)
    ELSE prompt

\* VariableBlocks that puts each block in front of the additional info
RECURSIVE VariableBlocksBackward(_, _, _, _)
VariableBlocksBackward(variablesWithContent, matches, activeNoteContent, i) ==
    IF i > Len(variablesWithContent) THEN <<>>
    ELSE LET rest == VariableBlocksBackward(variablesWithContent, matches,
                                            activeNoteContent, i + 1)
         IN  IF i > Len(matches) THEN rest
             ELSE LET varname == matches[i]
                  IN  IF /\ ToLowerCase(varname) = activenote
                         /\ activeNoteContent # Undefined
                         /\ activeNoteContent # <<>>
                      THEN rest
                      ELSE rest \o <<Block("variable", varname, variablesWithContent[i], i,
                                           NoFile, Undefined)>>

\* the for loop over variablesWithContent, from index i on
RECURSIVE VariableBlocks(_, _, _, _)
VariableBlocks(variablesWithContent, matches, activeNoteContent, i) ==
    IF i > Len(variablesWithContent) THEN <<>>
    ELSE LET rest == VariableBlocks(variablesWithContent, matches, activeNoteContent, i + 1)
         IN  IF i > Len(matches) THEN rest
             ELSE LET varname == matches[i]
                  IN  IF /\ ToLowerCase(varname) = activenote
                         /\ activeNoteContent # Undefined
                         /\ activeNoteContent # <<>>
                      THEN rest
                      ELSE <<Block("variable", varname, variablesWithContent[i], i,
                                   NoFile, Undefined)>> \o rest

\* matches.some(match => match[1].includes(`[[${noteTitle}]]`))
AlreadyProcessed(matches, noteTitle) ==
    \E k \in 1..Len(matches) :
        Includes(matches[k], <<"[", "[">> \o noteTitle \o <<"]", "]">>)

\* noteHeading after the `if (noteTitle.includes('#'))` statement of one iteration
NextHeading(noteTitle, noteHeading) ==
    IF Includes(noteTitle, <<"#">>)
    THEN Trim(Split(noteTitle, "#")[2])
    ELSE noteHeading

\* parsedNoteTitle of one iteration
ParsedNoteTitle(noteTitle) ==
    IF Includes(noteTitle, <<"#">>)
    THEN Trim(Split(noteTitle, "#")[1])
    ELSE noteTitle

\* LinkBlocks that leaves the loop at the first title without a file
RECURSIVE LinkBlocksStopAtMissing(_, _, _, _)
LinkBlocksStopAtMissing(noteTitles, matches, noteHeading, i) ==
    IF i > Len(noteTitles) THEN <<>>
    ELSE LET noteTitle == noteTitles[i]
         IN  IF AlreadyProcessed(matches, noteTitle)
             THEN LinkBlocksStopAtMissing(noteTitles, matches, noteHeading, i + 1)
             ELSE LET heading  == NextHeading(noteTitle, noteHeading)
                      noteFile == getNoteFileFromTitle(ParsedNoteTitle(noteTitle))
                  IN  IF noteFile = NoFile THEN <<>>
                      ELSE <<Block("link", noteTitle, getFileContent(noteFile, heading),
                                   i, noteFile, heading)>>
                           \o LinkBlocksStopAtMissing(noteTitles, matches, heading, i + 1)

\* the for loop over noteTitles, from index i on, entered with noteHeading
RECURSIVE LinkBlocks(_, _, _, _)
LinkBlocks(noteTitles, matches, noteHeading, i) ==
    IF i > Len(noteTitles) THEN <<>>
    ELSE LET noteTitle == noteTitles[i]
         IN  IF AlreadyProcessed(matches, noteTitle)
             THEN LinkBlocks(noteTitles, matches, noteHeading, i + 1)
             ELSE LET heading  == NextHeading(noteTitle, noteHeading)
                      noteFile == getNoteFileFromTitle(ParsedNoteTitle(noteTitle))
                  IN  (IF noteFile # NoFile
                       THEN <<Block("link", noteTitle, getFileContent(noteFile, heading),
                                    i, noteFile, heading)>>
                       ELSE <<>>)
                      \o LinkBlocks(noteTitles, matches, heading, i + 1)

\* Returned without the separator when there is no additional info
ReturnedBare(processedPrompt, additionalInfo) ==
    IF additionalInfo = <<>> THEN processedPrompt
    ELSE processedPrompt \o <<"\n", "\n">> \o additionalInfo

\* return processedPrompt + "\n\n" + additionalInfo
Returned(processedPrompt, additionalInfo) ==
    processedPrompt \o <<"\n", "\n">> \o additionalInfo

\* the value processCustomPrompt returns, with the blocks it is made of and
\* the Notices raised on the way
processCustomPrompt(prompt, selected, active) ==
    LET extracted == extractVariablesFromPrompt(prompt, active)
        matches   == variableRegex(prompt)
        processed == ProcessedPrompt(prompt)
        blocks    == SelectionBlocks(prompt, selected, active)
                     \o VariableBlocks(extracted.variablesWithContent, matches,
                                       ActiveNoteContent(prompt, selected, active), 1)
                     \o LinkBlocks(extractNoteTitles(processed), matches, Undefined, 1)
    IN  [returned |-> Returned(processed, AdditionalInfo(blocks)),
         blocks   |-> blocks,
         notices  |-> extracted.notices]

----------------------------------------------------------------------------
(* The inputs of an expansion *)

FragText       == <<"x">>
FragOpen       == <<"{">>
FragSelection  == <<"{", "}">>
FragActiveNote == <<"{", "activeNote", "}">>
FragActivePad  == <<"{", " ", "ActiveNote", " ", "}">>
FragTag        == <<"{", "#", "t", "}">>
FragTagNone    == <<"{", "#", "u", "}">>
FragPathEmpty  == <<"{", "[", "[", "E", "]", "]", "}">>
FragPathNote   == <<"{", "[", "[", "B", "]", "]", "}">>
FragLinkHead   == <<"[", "[", "A", "#", "H", "]", "]">>
FragLink       == <<"[", "[", "B", "]", "]">>
FragLinkNone   == <<"[", "[", "M", "]", "]">>

Fragments == {FragText, FragOpen, FragSelection, FragActiveNote, FragActivePad, FragTag,
              FragTagNone, FragPathEmpty, FragPathNote, FragLinkHead, FragLink,
              FragLinkNone}

RECURSIVE Concat(_)
Concat(fs) == IF fs = <<>> THEN <<>> ELSE Head(fs) \o Concat(Tail(fs))

Templates == {Concat(fs) : fs \in UNION {[1..n -> Fragments] : n \in 0..MaxFrags}}

SelectedTexts == {<<>>, <<"h", "i">>}

\* a link whose heading has a '#' of its own
FragLinkDeep == <<"[", "[", "A", "#", "H", "#", "G", "]", "]">>

\* the templates of the calls that follow one another
CallTemplates == {FragLinkDeep, FragLinkHead, FragLink, FragSelection \o FragTag}

\* the calls of processCustomPrompt that can be running at the same time
Slots == {1, 2}

ActiveNotes == {NoFile, "A", "E"}

----------------------------------------------------------------------------
(* State *)

VARIABLES
    customPrompt,   \* the template handed to processCustomPrompt
    selectedText,   \* the selected text handed to it
    activeNote,     \* the active note handed to it, or NoFile
    pc,             \* "call" before the call, "returned" after it
    returned,       \* the string processCustomPrompt returned
    blocks,         \* the blocks appended to additionalInfo, in order
    notices         \* the Notices shown, in order

VARIABLES
    frames,         \* per running call of processCustomPrompt: its arguments, its place
                    \* and its local variables
    remembered      \* the arguments and the result of one call that has returned

callVars == <<frames, remembered>>

expandVars == <<customPrompt, selectedText, activeNote, pc, returned, blocks, notices,
                callVars>>

VARIABLES
    files,          \* the documents <customPromptsFolder>/<title>.md: title -> content, or NoDoc
    folderExists,   \* whether the folder customPromptsFolder exists
    usageStrategy,  \* whether the instance was built with a PromptUsageStrategy
    usage,          \* the usage records: title -> time of last use, or NoRecord
    clock,          \* Date.now()
    call,           \* the last call of the store and the state of its two concurrent writes
    outcome,        \* how that call ended: "none", "pending", "ok" or "error"
    instance,       \* CustomPromptProcessor.instance: NoInstance, or its vault and settings
    strays          \* the documents of the vault that are no <customPromptsFolder>/<title>.md

\* what no operation of the store changes once the instance is built
built == <<instance, usageStrategy, strays>>

storeVars == <<files, folderExists, usage, clock, call, outcome, built>>

vars == <<expandVars, storeVars>>

----------------------------------------------------------------------------
(* The prompt store *)

Titles == {"P", "Q", "R"}

Contents == {"old", "new"}

NoDoc == "no document"

NoRecord == 0

NoCall == [op |-> "none", origin |-> "", title |-> "", content |-> "",
           usageWrite |-> "none", vaultWrite |-> "none", listed |-> <<>>,
           asked |-> <<>>]

\* CustomPromptProcessor.instance before the first getInstance
NoInstance == [vault |-> "none", settings |-> "none"]

\* the vaults and the settings a caller can hand to getInstance
Vaults == {"vault", "other vault"}

Settings == {"settings", "other settings"}

\* settings.customPromptsFolder
Folder == <<"prompts">>

\* documents of the vault outside the folder of the templates: one in a
\* sub-folder, one in a folder whose name starts with the name of the folder,
\* one elsewhere
StrayDocs ==
    << [path |-> <<"prompts", "/", "sub", "/", "P", ".", "md">>,
        basename |-> "P", extension |-> "md", content |-> "stray"],
       [path |-> <<"prompts", "-", "old", "/", "Q", ".", "md">>,
        basename |-> "Q", extension |-> "md", content |-> "stray"],
       [path |-> <<"elsewhere", "/", "R", ".", "md">>,
        basename |-> "R", extension |-> "md", content |-> "stray"] >>

StoreIdle ==
    /\ files = [t \in Titles |-> NoDoc]
    /\ folderExists = FALSE
    /\ usage = [t \in Titles |-> NoRecord]
    /\ clock = 0
    /\ call = NoCall
    /\ outcome = "none"

\* the instance is built, no call is running and no write of an earlier call
\* is still in flight
Idle ==
    /\ instance # NoInstance
    /\ outcome # "pending"
    /\ call.usageWrite # "pending"
    /\ call.vaultWrite # "pending"

\* PromptUsageStrategy.recordUsage(title)
recordUsage(u, title, now) == [u EXCEPT ![title] = now]

\* PromptUsageStrategy.updateUsage(oldTitle, newTitle)
updateUsage(u, oldTitle, newTitle) ==
    [u EXCEPT ![newTitle] = u[oldTitle], ![oldTitle] = NoRecord]

\* PromptUsageStrategy.removeUnusedPrompts(existingTitles)
removeUnusedPrompts(u, existingTitles) ==
    [t \in Titles |-> IF t \in existingTitles THEN u[t] ELSE NoRecord]

\* vault.getAbstractFileByPath(`${folder}/${title}.md`) instanceof TFile
IsFile(title) == files[title] # NoDoc

\* the order in which vault.getFiles() lists the documents of the folder
TitleOrder == <<"P", "Q", "R">>

\* the TFile of <customPromptsFolder>/<title>.md
FolderDoc(title, content) ==
    [path |-> Folder \o <<"/", title, ".", "md">>,
     basename |-> title, extension |-> "md", content |-> content]

\* vault.getFiles()
getFiles(f, others) ==
    LET Present(t) == f[t] # NoDoc
        present    == SelectSeq(TitleOrder, Present)
    IN  [i \in 1..Len(present) |-> FolderDoc(present[i], f[present[i]])] \o others

\* the filter of getAllPrompts
IsPromptFile(file) == StartsWith(file.path, Folder) /\ file.extension = "md"

\* prompts of getAllPrompts, before the sort
Prompts(f, others) ==
    LET listed == SelectSeq(getFiles(f, others), IsPromptFile)
    IN  [i \in 1..Len(listed) |->
            [title |-> listed[i].basename, content |-> listed[i].content]]

\* PromptTitles that hands no title to removeUnusedPrompts
PromptTitlesNone(prompts) == {}

\* prompts.map((prompt) => prompt.title)
PromptTitles(prompts) == {prompts[i].title : i \in 1..Len(prompts)}

\* PromptUsageStrategy.compare(b.title, a.title) < 0: a was used later than b
UsedLater(u, a, b) == u[a.title] > u[b.title]

\* one prompt put into a sorted list, behind the prompts it does not precede
InsertPrompt(u, sorted, x) ==
    LET before == {i \in 1..Len(sorted) : UsedLater(u, x, sorted[i])}
        k      == IF before = {} THEN Len(sorted) + 1
                  ELSE CHOOSE i \in before : \A j \in before : i <= j
    IN  SubSeq(sorted, 1, k - 1) \o <<x>> \o SubSeq(sorted, k, Len(sorted))

\* prompts.sort((a, b) => compare(b.title, a.title) || 0), a stable sort
RECURSIVE SortPrompts(_, _)
SortPrompts(u, prompts) ==
    IF prompts = <<>> THEN <<>>
    ELSE InsertPrompt(u, SortPrompts(u, SubSeq(prompts, 1, Len(prompts) - 1)),
                      prompts[Len(prompts)])

\* Modified that writes nothing
ModifiedNothing(f, title, content) == f

\* vault.modify(file, content)
Modified(f, title, content) == [f EXCEPT ![title] = content]

\* vault.rename(file, newFilePath)
Renamed(f, origin, title) == [f EXCEPT ![title] = f[origin], ![origin] = NoDoc]

\* vault.delete(file)
Deleted(f, title) == [f EXCEPT ![title] = NoDoc]

\* the record of a getInstance call; the record of a call that is running or
\* whose writes are still in flight is kept, for the writes to settle
Asked(vault, settings, strategy) ==
    IF outcome = "pending" \/ call.usageWrite = "pending" \/ call.vaultWrite = "pending"
    THEN call
    ELSE [NoCall EXCEPT !.op = "getInstance", !.asked = <<vault, settings, strategy>>]

\* GetInstance that builds a new instance at every call
GetInstanceLastWins(vault, settings, strategy) ==
    /\ instance' = [vault |-> vault, settings |-> settings]
    /\ usageStrategy' = strategy
    /\ call' = Asked(vault, settings, strategy)
    /\ UNCHANGED <<files, folderExists, usage, clock, outcome, strays>>
    /\ UNCHANGED expandVars

\* CustomPromptProcessor.getInstance(vault, settings, usageStrategy)
GetInstance(vault, settings, strategy) ==
    /\ IF instance = NoInstance
       THEN /\ instance' = [vault |-> vault, settings |-> settings]
            /\ usageStrategy' = strategy
       ELSE UNCHANGED <<instance, usageStrategy>>
    /\ call' = Asked(vault, settings, strategy)
    /\ UNCHANGED <<files, folderExists, usage, clock, outcome, strays>>
    /\ UNCHANGED expandVars

\* getAllPrompts()
GetAllPrompts ==
    /\ Idle
    /\ LET prompts == Prompts(files, strays)
           pruned  == IF usageStrategy
                      THEN removeUnusedPrompts(usage, PromptTitles(prompts))
                      ELSE usage
       IN  /\ usage' = pruned
           /\ call' = [NoCall EXCEPT
                         !.op = "list",
                         !.listed = IF usageStrategy THEN SortPrompts(pruned, prompts)
                                    ELSE prompts]
    /\ outcome' = "ok"
    /\ UNCHANGED <<files, folderExists, clock, built>>
    /\ UNCHANGED expandVars

\* NewFileExists without the lookup of the new path
NewFileExistsNever(newTitle) == FALSE

\* newFileExists of updatePrompt
NewFileExists(newTitle) == files[newTitle] # NoDoc

\* recordPromptUsage(title)
RecordPromptUsage(title) ==
    /\ Idle
    /\ clock < MaxClock
    /\ clock' = clock + 1
    /\ usage' = IF usageStrategy THEN recordUsage(usage, title, clock + 1) ELSE usage
    /\ call' = [NoCall EXCEPT !.op = "recordUsage", !.title = title]
    /\ outcome' = "ok"
    /\ UNCHANGED <<files, folderExists, built>>
    /\ UNCHANGED expandVars

\* SavePrompt with a vault.create that overwrites an existing document
SavePromptOverwrites(title, content) ==
    /\ Idle
    /\ folderExists' = TRUE
    /\ outcome' = "ok"
    /\ files' = [files EXCEPT ![title] = content]
    /\ call' = [NoCall EXCEPT !.op = "save", !.title = title, !.content = content]
    /\ UNCHANGED <<built, usage, clock>>
    /\ UNCHANGED expandVars

\* savePrompt(title, content): vault.create rejects an existing path
SavePrompt(title, content) ==
    /\ Idle
    /\ folderExists' = TRUE
    /\ IF IsFile(title)
       THEN outcome' = "error" /\ files' = files
       ELSE outcome' = "ok" /\ files' = [files EXCEPT ![title] = content]
    /\ call' = [NoCall EXCEPT !.op = "save", !.title = title, !.content = content]
    /\ UNCHANGED <<built, usage, clock>>
    /\ UNCHANGED expandVars

\* updatePrompt(originTitle, newTitle, content), up to its first await
UpdatePrompt(originTitle, newTitle, content) ==
    /\ Idle
    /\ LET this == [NoCall EXCEPT !.op = "update", !.origin = originTitle,
                                  !.title = newTitle, !.content = content]
       IN
       IF ~IsFile(originTitle)
       THEN /\ outcome' = "ok"
            /\ call' = this
            /\ UNCHANGED <<files, usage>>
       ELSE IF originTitle # newTitle
       THEN IF NewFileExists(newTitle)
            THEN /\ outcome' = "error"
                 /\ call' = this
                 /\ UNCHANGED <<files, usage>>
            ELSE /\ outcome' = "pending"
                 /\ usage' = IF usageStrategy
                             THEN updateUsage(usage, originTitle, newTitle)
                             ELSE usage
                 /\ call' = [this EXCEPT
                               !.usageWrite = IF usageStrategy THEN "pending" ELSE "done",
                               !.vaultWrite = "pending"]
                 /\ UNCHANGED files
       ELSE /\ outcome' = "ok"
            /\ files' = Modified(files, originTitle, content)
            /\ call' = this
            /\ UNCHANGED usage
    /\ UNCHANGED <<folderExists, built, clock>>
    /\ UNCHANGED expandVars

\* deletePrompt(title), up to its await
DeletePrompt(title) ==
    /\ Idle
    /\ LET this == [NoCall EXCEPT !.op = "delete", !.title = title]
       IN
       IF ~IsFile(title)
       THEN /\ outcome' = "ok"
            /\ call' = this
            /\ UNCHANGED usage
       ELSE /\ outcome' = "pending"
            /\ usage' = IF usageStrategy
                        THEN removeUnusedPrompts(usage, {title})
                        ELSE usage
            /\ call' = [this EXCEPT
                          !.usageWrite = IF usageStrategy THEN "pending" ELSE "done",
                          !.vaultWrite = "pending"]
    /\ UNCHANGED <<files, folderExists, built, clock>>
    /\ UNCHANGED expandVars

\* Rejected that takes a failed write for a write that is done
RejectedNever(ok) == outcome

\* Promise.all rejects with the first write that fails
Rejected(ok) == IF ok THEN outcome ELSE "error"

\* the save() of the usage records settles
UsageWriteSettles(ok) ==
    /\ call.usageWrite = "pending"
    /\ call' = [call EXCEPT !.usageWrite = IF ok THEN "done" ELSE "failed"]
    /\ outcome' = Rejected(ok)
    /\ UNCHANGED <<files, folderExists, built, usage, clock>>
    /\ UNCHANGED expandVars

\* vault.rename(file, newFilePath) or vault.delete(file) settles
VaultWriteSettles(ok) ==
    /\ call.vaultWrite = "pending"
    /\ call' = [call EXCEPT !.vaultWrite = IF ok THEN "done" ELSE "failed"]
    /\ outcome' = Rejected(ok)
    /\ files' = IF ~ok THEN files
                ELSE IF call.op = "update"
                THEN Renamed(files, call.origin, call.title)
                ELSE Deleted(files, call.title)
    /\ UNCHANGED <<folderExists, built, usage, clock>>
    /\ UNCHANGED expandVars

\* both writes done: Promise.all resolves; updatePrompt goes on to vault.modify
AllSettled ==
    /\ outcome = "pending"
    /\ call.usageWrite = "done"
    /\ call.vaultWrite = "done"
    /\ outcome' = "ok"
    /\ files' = IF call.op = "update"
                THEN Modified(files, call.title, call.content)
                ELSE files
    /\ UNCHANGED <<folderExists, built, usage, clock, call>>
    /\ UNCHANGED expandVars

Next ==
    \/ \E t \in Titles : RecordPromptUsage(t)
    \/ \E t \in Titles, c \in Contents : SavePrompt(t, c)
    \/ \E o \in Titles, n \in Titles, c \in Contents : UpdatePrompt(o, n, c)
    \/ \E t \in Titles : DeletePrompt(t)
    \/ \E ok \in BOOLEAN : UsageWriteSettles(ok)
    \/ \E ok \in BOOLEAN : VaultWriteSettles(ok)
    \/ AllSettled
    \/ GetAllPrompts

\* the store from before the first getInstance on
NextInstance ==
    \/ \E v \in Vaults, st \in Settings, u \in BOOLEAN : GetInstance(v, st, u)
    \/ \E t \in Titles : RecordPromptUsage(t)
    \/ \E t \in Titles, c \in Contents : SavePrompt(t, c)
    \/ \E t \in Titles : DeletePrompt(t)
    \/ \E ok \in BOOLEAN : UsageWriteSettles(ok)
    \/ \E ok \in BOOLEAN : VaultWriteSettles(ok)
    \/ AllSettled
    \/ GetAllPrompts

----------------------------------------------------------------------------
(* Calls of processCustomPrompt that follow one another and overlap *)

\* no call has used the slot yet
IdleFrame ==
    [pc |-> "idle", customPrompt |-> <<>>, selectedText |-> <<>>, activeNote |-> NoFile,
     noteHeading |-> Undefined, blocks |-> <<>>, returned |-> Undefined]

NotRemembered ==
    [customPrompt |-> <<>>, selectedText |-> <<>>, activeNote |-> NoFile,
     returned |-> Undefined]

CallsIdle ==
    /\ frames = [s \in Slots |-> IdleFrame]
    /\ remembered = NotRemembered

\* DeclareNoteHeading of a noteHeading that outlives the call
DeclareNoteHeadingOnce(old) == old

\* let noteHeading: string | undefined, a local of the call: whatever an
\* earlier call left is gone
DeclareNoteHeading(old) == Undefined

\* noteHeading when the for loop over noteTitles is left
RECURSIVE HeadingAfter(_, _, _, _)
HeadingAfter(noteTitles, matches, noteHeading, i) ==
    IF i > Len(noteTitles) THEN noteHeading
    ELSE IF AlreadyProcessed(matches, noteTitles[i])
    THEN HeadingAfter(noteTitles, matches, noteHeading, i + 1)
    ELSE HeadingAfter(noteTitles, matches, NextHeading(noteTitles[i], noteHeading), i + 1)

\* processCustomPrompt(prompt, selected, active) is called
Enter(s, prompt, selected, active) ==
    /\ frames[s].pc \in {"idle", "returned"}
    /\ frames' = [frames EXCEPT ![s] =
                     [@ EXCEPT !.pc = "variables", !.customPrompt = prompt,
                               !.selectedText = selected, !.activeNote = active,
                               !.blocks = <<>>, !.returned = Undefined]]
    /\ UNCHANGED remembered
    /\ UNCHANGED <<customPrompt, selectedText, activeNote, pc, returned, blocks, notices>>
    /\ UNCHANGED storeVars

\* the call goes from its first await to the declaration of noteHeading
ResolveVariables(s) ==
    /\ frames[s].pc = "variables"
    /\ LET f         == frames[s]
           extracted == extractVariablesFromPrompt(f.customPrompt, f.activeNote)
           matches   == variableRegex(f.customPrompt)
       IN  frames' = [frames EXCEPT ![s] =
                        [@ EXCEPT
                           !.pc = "links",
                           !.blocks =
                               SelectionBlocks(f.customPrompt, f.selectedText, f.activeNote)
                               \o VariableBlocks(extracted.variablesWithContent, matches,
                                                 ActiveNoteContent(f.customPrompt,
                                                                   f.selectedText,
                                                                   f.activeNote), 1),
                           !.noteHeading = DeclareNoteHeading(f.noteHeading)]]
    /\ UNCHANGED remembered
    /\ UNCHANGED <<customPrompt, selectedText, activeNote, pc, returned, blocks, notices>>
    /\ UNCHANGED storeVars

\* the call goes through the loop over the links and returns
ResolveLinks(s) ==
    /\ frames[s].pc = "links"
    /\ LET f          == frames[s]
           processed  == ProcessedPrompt(f.customPrompt)
           matches    == variableRegex(f.customPrompt)
           noteTitles == extractNoteTitles(processed)
           all        == f.blocks \o LinkBlocks(noteTitles, matches, f.noteHeading, 1)
           result     == Returned(processed, AdditionalInfo(all))
       IN  /\ frames' = [frames EXCEPT ![s] =
                            [@ EXCEPT
                               !.pc = "returned",
                               !.blocks = all,
                               !.returned = result,
                               !.noteHeading =
                                   HeadingAfter(noteTitles, matches, f.noteHeading, 1)]]
           /\ remembered' \in
                  {remembered} \cup
                  (IF remembered = NotRemembered
                   THEN {[customPrompt |-> f.customPrompt,
                          selectedText |-> f.selectedText,
                          activeNote |-> f.activeNote, returned |-> result]}
                   ELSE {})
    /\ UNCHANGED <<customPrompt, selectedText, activeNote, pc, returned, blocks, notices>>
    /\ UNCHANGED storeVars

NextCalls ==
    \/ \E s \in Slots, t \in CallTemplates, x \in SelectedTexts, a \in {NoFile, "A"} :
           Enter(s, t, x, a)
    \/ \E s \in Slots : ResolveVariables(s)
    \/ \E s \in Slots : ResolveLinks(s)

----------------------------------------------------------------------------
(* The specifications *)

ExpandIdle ==
    /\ CallsIdle
    /\ customPrompt = <<>>
    /\ selectedText = <<>>
    /\ activeNote = NoFile
    /\ pc = "call"
    /\ returned = Undefined
    /\ blocks = <<>>
    /\ notices = <<>>

InitExpand ==
    /\ customPrompt \in Templates
    /\ selectedText \in SelectedTexts
    /\ activeNote \in ActiveNotes
    /\ pc = "call"
    /\ returned = Undefined
    /\ blocks = <<>>
    /\ notices = <<>>
    /\ CallsIdle
    /\ usageStrategy = FALSE
    /\ instance = [vault |-> "vault", settings |-> "settings"]
    /\ strays = <<>>
    /\ StoreIdle

\* one call of processCustomPrompt(customPrompt, selectedText, activeNote)
Expand ==
    /\ pc = "call"
    /\ \E out \in {processCustomPrompt(customPrompt, selectedText, activeNote)} :
           /\ returned' = out.returned
           /\ blocks' = out.blocks
           /\ notices' = out.notices
    /\ pc' = "returned"
    /\ UNCHANGED <<customPrompt, selectedText, activeNote, callVars>>
    /\ UNCHANGED storeVars

NextExpand == Expand

SpecExpand == InitExpand /\ [][NextExpand]_vars

Init ==
    /\ ExpandIdle
    /\ usageStrategy \in BOOLEAN
    /\ instance = [vault |-> "vault", settings |-> "settings"]
    /\ strays = <<>>
    /\ StoreIdle

Spec == Init /\ [][Next]_vars

\* the store in a vault that holds other documents
InitVault ==
    /\ ExpandIdle
    /\ usageStrategy \in BOOLEAN
    /\ instance = [vault |-> "vault", settings |-> "settings"]
    /\ strays = StrayDocs
    /\ StoreIdle

SpecVault == InitVault /\ [][Next]_vars

InitInstance ==
    /\ ExpandIdle
    /\ usageStrategy = FALSE
    /\ instance = NoInstance
    /\ strays = <<>>
    /\ StoreIdle

SpecInstance == InitInstance /\ [][NextInstance]_vars

InitCalls ==
    /\ ExpandIdle
    /\ usageStrategy = FALSE
    /\ instance = [vault |-> "vault", settings |-> "settings"]
    /\ strays = <<>>
    /\ StoreIdle

SpecCalls == InitCalls /\ [][NextCalls]_vars

----------------------------------------------------------------------------
(* Properties of the expansion (checked under SpecExpand) *)

IsVariable(b) == b.kind = "variable"
IsLink(b) == b.kind = "link"
IsSelection(b) == b.kind = "selection"

\* the {...} spans of the template, as written
Spans == variableRegex(customPrompt)

\* the [[...]] spans of the template
Links == extractNoteTitles(customPrompt)

\* whether the vault holds a note with content for a variable name: stated
\* from the vault, not from the resolver
NameHasNotes(name) ==
    IF ToLowerCase(name) = activenote
    THEN activeNote # NoFile /\ NoteText[activeNote] # <<>>
    ELSE \E n \in {"A", "B", "E"} :
            /\ NoteText[n] # <<>>
            /\ IF StartsWith(name, <<"#">>)
               THEN \E tag \in NoteTags[n] :
                       LET tags == Split(Tail(name), ",")
                       IN  \E k \in 1..Len(tags) : Trim(tags[k]) = tag
               ELSE \/ name = NotePath(n)
                    \/ name = <<"[", "[", n, "]", "]">>

\* the indexes of the spans that resolve to at least one note, in the order
\* of the template
RECURSIVE ResolvedFrom(_, _)
ResolvedFrom(spans, k) ==
    IF k > Len(spans) THEN <<>>
    ELSE (IF NameHasNotes(Trim(spans[k])) THEN <<k>> ELSE <<>>)
         \o ResolvedFrom(spans, k + 1)

\* the content block of a variable name that resolves to notes
ExpectedContent(name) ==
    IF ToLowerCase(name) = activenote
    THEN <<"#", "#", " ", activeNote, "\n", "\n">> \o NoteText[activeNote]
    ELSE IF name = <<"#", "t">>
    THEN <<"#", "#", " ", "A", "\n", "\n">> \o NoteText["A"] \o <<"\n", "\n">>
         \o <<"#", "#", " ", "B", "\n", "\n">> \o NoteText["B"]
    ELSE <<"#", "#", " ", name[3], "\n", "\n">> \o NoteText[name[3]]

\* C1: every variable block is labelled with the raw text of the span that
\* produced its content: the k-th content of the resolver belongs to the k-th
\* span that resolved to at least one note, and a block that carries it is
\* labelled with the text of that span, never with the text of a span that
\* resolved to nothing.
C1_BlockLabelledWithItsSpan ==
    pc = "returned" =>
        LET spans    == Spans
            resolved == ResolvedFrom(spans, 1)
        IN  \A i \in 1..Len(blocks) :
                IsVariable(blocks[i]) =>
                    /\ blocks[i].src <= Len(resolved)
                    /\ blocks[i].label = spans[resolved[blocks[i].src]]
                    /\ blocks[i].content = ExpectedContent(Trim(blocks[i].label))

\* C2: a link without '#' is fetched with no heading, whatever heading the
\* links before it carried.
C2_FreshHeadingPerLink ==
    pc = "returned" =>
        \A i \in 1..Len(blocks) :
            (IsLink(blocks[i]) /\ ~Includes(blocks[i].label, <<"#">>)) =>
                /\ blocks[i].heading = Undefined
                /\ blocks[i].content = NoteText[blocks[i].file]

\* the case of C3: {} and an activeNote variable, nothing selected, an active note
C3_Case ==
    /\ selectedText = <<>>
    /\ activeNote # NoFile
    /\ Includes(customPrompt, <<"{", "}">>)
    /\ LET spans == Spans
       IN  \E k \in 1..Len(spans) : ToLowerCase(Trim(spans[k])) = activenote

\* C3: in that case the content of the active note is in the additional info
\* exactly once, as the selection block: the block of the activeNote variable
\* is skipped, and the block of every other variable that resolved is there.
C3_ActiveNoteOnce ==
    (pc = "returned" /\ C3_Case) =>
        LET spans       == Spans
            resolved    == ResolvedFrom(spans, 1)
            OfActive(b) == \/ b.content = NoteText[activeNote]
                           \/ b.content = ExpectedContent(activenote)
            Other(k)    == ToLowerCase(Trim(spans[k])) # activenote
        IN  /\ blocks # <<>> /\ IsSelection(blocks[1])
            /\ blocks[1].content = NoteText[activeNote]
            /\ NoteText[activeNote] # <<>> => Len(SelectSeq(blocks, OfActive)) = 1
            /\ Len(SelectSeq(blocks, IsVariable)) = Len(SelectSeq(resolved, Other))
            /\ \A j \in 1..Len(resolved) :
                   Other(resolved[j]) =>
                       \E i \in 1..Len(blocks) :
                           /\ IsVariable(blocks[i])
                           /\ blocks[i].content = ExpectedContent(Trim(spans[resolved[j]]))

\* the additional info of the returned string
Info == AdditionalInfo(blocks)

\* C4: with {} in the template every {} of the body is replaced by
\* {selectedText} and exactly one selection block is added, first: the
\* selected text, else the content of the active note, else the text that
\* nothing is available.  Without {} the body is the template and there is no
\* selection block.
C4_SelectionPlaceholder ==
    pc = "returned" =>
        LET info == Info
            body == SubSeq(returned, 1, Len(returned) - Len(info) - 2)
        IN  /\ returned = body \o <<"\n", "\n">> \o info
            /\ IF Includes(customPrompt, <<"{", "}">>)
               THEN /\ ~Includes(body, <<"{", "}">>)
                    /\ ReplaceAll(body, <<"{", "selectedText", "}">>, <<"{", "}">>)
                           = customPrompt
                    /\ Len(SelectSeq(blocks, IsSelection)) = 1
                    /\ IsSelection(blocks[1])
                    /\ blocks[1].content =
                           IF selectedText # <<>> THEN selectedText
                           ELSE IF activeNote # NoFile THEN NoteText[activeNote]
                           ELSE <<"(No selected text or active note available)">>
               ELSE /\ body = customPrompt
                    /\ Len(SelectSeq(blocks, IsSelection)) = 0

C4_Witness ==
    /\ pc = "returned"
    /\ customPrompt = FragSelection \o FragText \o FragSelection
    /\ selectedText = <<>>
    /\ activeNote = "A"
    /\ Len(blocks) = 1
    /\ blocks[1].content = NoteText["A"]

\* C5: a template without {...} span, {} and [[...]] link comes back followed
\* by two newlines and nothing else, and no Notice is raised.
C5_PlainTemplate ==
    (pc = "returned" /\ Spans = <<>> /\ Links = <<>>
        /\ ~Includes(customPrompt, <<"{", "}">>)) =>
        /\ returned = customPrompt \o <<"\n", "\n">>
        /\ blocks = <<>>
        /\ notices = <<>>

C5_Witness ==
    /\ pc = "returned"
    /\ customPrompt = FragText \o FragOpen \o FragText
    /\ selectedText # <<>>
    /\ activeNote = "A"
    /\ returned = <<"x", "{", "x", "\n", "\n">>

\* the case of C6: expand("{activeNote}", "", someNote)
C6_Case ==
    /\ pc = "returned"
    /\ customPrompt = FragActiveNote
    /\ selectedText = <<>>
    /\ activeNote # NoFile

\* C6 as stated: one block labelled activeNote whose content is exactly the
\* full content of the note.
C6_ContentIsExactlyTheNote ==
    C6_Case =>
        /\ Len(blocks) = 1
        /\ blocks[1].label = <<"activeNote">>
        /\ blocks[1].content = NoteText[activeNote]
        /\ returned = customPrompt \o <<"\n", "\n">>
                        \o <<"\n", "\n", "activeNote", ":", "\n", "\n">>
                        \o NoteText[activeNote]

\* C6, amended: for a note with content, one block labelled activeNote whose
\* content is the line "## <name of the note>", an empty line and the full
\* content of the note; for an empty note no block, and a warning.
C6_ActiveNoteBlock ==
    C6_Case =>
        IF NoteText[activeNote] # <<>>
        THEN /\ Len(blocks) = 1
             /\ IsVariable(blocks[1])
             /\ blocks[1].label = <<"activeNote">>
             /\ blocks[1].content =
                    <<"#", "#", " ", activeNote, "\n", "\n">> \o NoteText[activeNote]
             /\ returned = customPrompt \o <<"\n", "\n">>
                             \o <<"\n", "\n", "activeNote", ":", "\n", "\n">>
                             \o <<"#", "#", " ", activeNote, "\n", "\n">>
                             \o NoteText[activeNote]
             /\ notices = <<>>
        ELSE /\ blocks = <<>>
             /\ returned = customPrompt \o <<"\n", "\n">>
             /\ Len(notices) = 1

C6_Witness ==
    /\ C6_Case
    /\ activeNote = "A"
    /\ Len(blocks) = 1

\* whether the content of the active note went into the selection block, so
\* that the activeNote variable is skipped
ActiveNoteSelected ==
    /\ selectedText = <<>>
    /\ activeNote # NoFile
    /\ Includes(customPrompt, <<"{", "}">>)

\* the title of a link, before its first '#'
TitleOf(link) == Trim(Split(link, "#")[1])

HasFile(link) == TitleOf(link) \in {<<"A">>, <<"B">>, <<"E">>}

\* C7: a span of the template raises a Notice exactly when no note with
\* content resolves it; the expansion returns a string all the same, with the
\* contents of the resolved spans in order, and the links after an unresolved
\* variable are resolved.
C7_WarningIffNoBlock ==
    pc = "returned" =>
        LET spans    == Spans
            resolved == ResolvedFrom(spans, 1)
            links    == Links
            nvar     == Len(SelectSeq(blocks, IsVariable))
        IN  /\ returned # Undefined
            /\ \A k \in 1..Len(spans) :
                   (\E i \in 1..Len(notices) : notices[i].span = k)
                       <=> ~NameHasNotes(Trim(spans[k]))
            /\ \A i \in 1..Len(notices) : notices[i].span \in 1..Len(spans)
            /\ nvar <= Len(resolved)
            /\ ~ActiveNoteSelected =>
                   /\ nvar = Len(resolved)
                   /\ \A i \in 1..Len(blocks) :
                          IsVariable(blocks[i]) =>
                              blocks[i].content =
                                  ExpectedContent(Trim(spans[resolved[blocks[i].src]]))
            /\ \A j \in 1..Len(links) :
                   (HasFile(links[j]) /\ ~AlreadyProcessed(spans, links[j])) =>
                       \E i \in 1..Len(blocks) : IsLink(blocks[i]) /\ blocks[i].src = j

C7_Witness ==
    /\ pc = "returned"
    /\ customPrompt = FragTagNone \o FragTag \o FragLink
    /\ Len(notices) = 1
    /\ notices[1].name = <<"#", "u">>
    /\ Len(blocks) = 2
    /\ IsLink(blocks[2])

\* C8: a link whose title resolves to no file adds no block and raises no
\* Notice, and the links after it are resolved; a template that is only such a
\* link comes back followed by two newlines.
C8_MissingLinkSilent ==
    pc = "returned" =>
        LET links == Links
        IN  /\ \A i \in 1..Len(blocks) : IsLink(blocks[i]) => HasFile(blocks[i].label)
            /\ Spans = <<>> =>
                   /\ notices = <<>>
                   /\ \A j \in 1..Len(links) :
                          HasFile(links[j]) =>
                              \E i \in 1..Len(blocks) :
                                  /\ IsLink(blocks[i])
                                  /\ blocks[i].src = j
                                  /\ blocks[i].label = links[j]
            /\ customPrompt = FragLinkNone =>
                   /\ returned = customPrompt \o <<"\n", "\n">>
                   /\ blocks = <<>>

C8_Witness ==
    /\ pc = "returned"
    /\ customPrompt = FragLinkNone \o FragLink
    /\ notices = <<>>
    /\ Len(blocks) = 1
    /\ blocks[1].label = <<"B">>

\* C9: a link gets its own block exactly when its title resolves to a file and
\* [[title]] is in the raw text of no span that resolved to notes.
C9_LinkBlockIffNotCovered ==
    pc = "returned" =>
        LET spans    == Spans
            resolved == ResolvedFrom(spans, 1)
            links    == Links
        IN  \A j \in 1..Len(links) :
                (\E i \in 1..Len(blocks) : IsLink(blocks[i]) /\ blocks[i].src = j)
                <=> /\ HasFile(links[j])
                    /\ \A r \in 1..Len(resolved) :
                           ~Includes(spans[resolved[r]],
                                     <<"[", "[">> \o links[j] \o <<"]", "]">>)

\* the place of a kind of block in the additional info
Rank(b) == IF IsSelection(b) THEN 0 ELSE IF IsVariable(b) THEN 1 ELSE 2

\* C18: in the additional info the selection block comes first, then the
\* variable blocks in the order of their spans, then the link blocks in the
\* order of their links: there is one selection block at most, every variable
\* block holds the whole content of one resolved span, joined from all its
\* notes, and no span and no link has two blocks.
C18_BlocksOrdered ==
    pc = "returned" =>
        LET spans    == Spans
            resolved == ResolvedFrom(spans, 1)
            links    == Links
        IN  /\ \A i \in 1..Len(blocks), j \in 1..Len(blocks) :
                   i < j =>
                       /\ Rank(blocks[i]) <= Rank(blocks[j])
                       /\ ~IsSelection(blocks[j])
                       /\ Rank(blocks[i]) = Rank(blocks[j]) =>
                              blocks[i].src < blocks[j].src
            /\ \A i \in 1..Len(blocks) :
                   /\ IsVariable(blocks[i]) =>
                          /\ blocks[i].src \in 1..Len(resolved)
                          /\ blocks[i].content =
                                 ExpectedContent(Trim(spans[resolved[blocks[i].src]]))
                   /\ IsLink(blocks[i]) =>
                          /\ blocks[i].src \in 1..Len(links)
                          /\ blocks[i].label = links[blocks[i].src]

C18_Witness ==
    /\ pc = "returned"
    /\ customPrompt = FragLink \o FragTag \o FragActiveNote
    /\ activeNote = "A"
    /\ Len(blocks) = 3
    /\ IsVariable(blocks[1])
    /\ blocks[1].content = ExpectedContent(<<"#", "t">>)
    /\ IsVariable(blocks[2])
    /\ IsLink(blocks[3])

----------------------------------------------------------------------------
(* Properties of calls that follow one another (checked under SpecCalls) *)

SameArguments(f, g) ==
    /\ f.customPrompt = g.customPrompt
    /\ f.selectedText = g.selectedText
    /\ f.activeNote = g.activeNote

\* C17: a call that has returned has returned what the remembered call with
\* the same template, selected text and active note returned, and what the
\* call in the other slot with the same arguments returned, whatever calls
\* ran before them or between their steps.
C17_SameArgumentsSameResult ==
    \A s \in Slots :
        frames[s].pc = "returned" =>
            /\ (remembered # NotRemembered /\ SameArguments(frames[s], remembered)) =>
                   frames[s].returned = remembered.returned
            /\ \A r \in Slots :
                   (frames[r].pc = "returned" /\ SameArguments(frames[s], frames[r])) =>
                       frames[s].returned = frames[r].returned

C17_Witness ==
    /\ remembered.customPrompt = FragLink
    /\ remembered.activeNote = "A"
    /\ frames[1].pc = "returned"
    /\ frames[1].customPrompt = FragLinkHead
    /\ frames[2].pc = "returned"
    /\ frames[1].noteHeading = <<"H">>
    /\ SameArguments(frames[2], remembered)
    /\ frames[2].noteHeading = Undefined
    /\ frames[2].returned = remembered.returned

\* C19: the block of a link with a '#' is fetched from the note named by the
\* text before the first '#', with the whole text after the first '#' as
\* heading, both trimmed.
C19_SplitAtFirstHash ==
    \A s \in Slots :
        frames[s].pc = "returned" =>
            \A i \in 1..Len(frames[s].blocks) :
                LET b == frames[s].blocks[i]
                    q == IndexFrom(b.label, <<"#">>, 1)
                IN  (IsLink(b) /\ q # 0) =>
                        /\ b.file = getNoteFileFromTitle(Trim(SubSeq(b.label, 1, q - 1)))
                        /\ b.heading = Trim(SubSeq(b.label, q + 1, Len(b.label)))

----------------------------------------------------------------------------
(* Properties of the prompt store (checked under Spec) *)

\* C10: updatePrompt(originTitle, newTitle, content) of an existing template
\* to the different title of another existing template ends in an error and
\* changes nothing: no document, no usage record, and no write is started.
C10_DuplicateTitleRejected ==
    [][(/\ call'.op = "update"
        /\ call'.origin # call'.title
        /\ files[call'.origin] # NoDoc
        /\ files[call'.title] # NoDoc
        /\ UpdatePrompt(call'.origin, call'.title, call'.content)) =>
            /\ outcome' = "error"
            /\ files' = files
            /\ usage' = usage
            /\ call'.usageWrite = "none"
            /\ call'.vaultWrite = "none"]_vars

C10_Witness ==
    /\ usageStrategy
    /\ call.op = "update"
    /\ call.origin = "P"
    /\ call.title = "Q"
    /\ call.vaultWrite = "none"
    /\ outcome = "error"
    /\ files["P"] = "old"
    /\ files["Q"] = "new"
    /\ call.content = "new"
    /\ usage["P"] # NoRecord

\* C11: an update of an existing template to a free title moves the usage
\* record of the old title to the new one and changes no other record and no
\* document when it starts; while it is running no other document and no
\* usage record changes; when it succeeds the document of the new title holds
\* the content, the old title has no document and no other document changed.
\* An update that keeps the title changes the content of that one document.
C11_UpdateRenamesAndWrites ==
    [][/\ (/\ call'.op = "update"
           /\ call'.origin # call'.title
           /\ files[call'.origin] # NoDoc
           /\ files[call'.title] = NoDoc
           /\ UpdatePrompt(call'.origin, call'.title, call'.content)) =>
               /\ files' = files
               /\ usageStrategy =>
                      /\ usage'[call'.title] = usage[call'.origin]
                      /\ usage'[call'.origin] = NoRecord
                      /\ \A t \in Titles \ {call'.origin, call'.title} :
                             usage'[t] = usage[t]
               /\ ~usageStrategy => usage' = usage
       /\ (call.op = "update" /\ outcome = "pending") =>
               /\ usage' = usage
               /\ \A t \in Titles \ {call.origin, call.title} : files'[t] = files[t]
               /\ outcome' = "ok" =>
                      /\ files'[call.title] = call.content
                      /\ files'[call.origin] = NoDoc
       /\ (/\ call'.op = "update"
           /\ call'.origin = call'.title
           /\ files[call'.origin] # NoDoc
           /\ UpdatePrompt(call'.origin, call'.title, call'.content)) =>
               /\ outcome' = "ok"
               /\ files'[call'.title] = call'.content
               /\ \A t \in Titles \ {call'.title} : files'[t] = files[t]
               /\ usage' = usage]_vars

C11_Witness ==
    /\ usageStrategy
    /\ call.op = "update"
    /\ call.origin = "P"
    /\ call.title = "Q"
    /\ call.content = "new"
    /\ call.vaultWrite = "done"
    /\ call.usageWrite = "done"
    /\ outcome = "ok"
    /\ files["P"] = NoDoc
    /\ files["Q"] = "new"
    /\ files["R"] = "old"
    /\ usage["P"] = NoRecord
    /\ usage["Q"] # NoRecord
    /\ usage["R"] # NoRecord

\* C12: a delete of an existing template removes the usage record of its
\* title and leaves the usage record of every other title as it was, and its
\* vault write removes the document.
C12_DeleteRemovesOnlyItsRecord ==
    [][/\ (/\ call'.op = "delete"
           /\ files[call'.title] # NoDoc
           /\ DeletePrompt(call'.title)) =>
               /\ usage'[call'.title] = NoRecord
               /\ \A t \in Titles \ {call'.title} : usage'[t] = usage[t]
       /\ (call.op = "delete" /\ outcome = "pending" /\ outcome' = "ok") =>
               files'[call.title] = NoDoc]_vars

\* C13: when getAllPrompts returns, every usage record that is left is keyed
\* by a title it returned, and the record of every title it returned is as it
\* was before.
C13_ListPrunesUsage ==
    [][(call'.op = "list" /\ GetAllPrompts) =>
           \A t \in Titles :
               LET returnedTitles == {call'.listed[i].title : i \in 1..Len(call'.listed)}
               IN  /\ usage'[t] # NoRecord => t \in returnedTitles
                   /\ t \in returnedTitles => usage'[t] = usage[t]]_vars

C13_Witness ==
    /\ usageStrategy
    /\ call.op = "list"
    /\ Len(call.listed) = 2
    /\ call.listed[1].title = "Q"
    /\ call.listed[2].title = "P"
    /\ usage["P"] # NoRecord
    /\ usage["Q"] > usage["P"]
    /\ usage["R"] = NoRecord
    /\ files["R"] = NoDoc

\* C14: savePrompt of a title that has a document ends in an error and leaves
\* every document as it was; of a title that has none it ends with the folder
\* existing and the document of the title holding the content, so that
\* getPrompt(title) returns {title, content}.
C14_CreateRejectsExisting ==
    [][(call'.op = "save" /\ SavePrompt(call'.title, call'.content)) =>
           IF files[call'.title] # NoDoc
           THEN /\ outcome' = "error"
                /\ files' = files
           ELSE /\ outcome' = "ok"
                /\ folderExists'
                /\ files'[call'.title] = call'.content
                /\ \A t \in Titles \ {call'.title} : files'[t] = files[t]]_vars

C14_Witness ==
    /\ call.op = "save"
    /\ call.title = "P"
    /\ call.content = "new"
    /\ outcome = "error"
    /\ files["P"] = "old"

\* C15: once built, the instance and its usage strategy are never replaced,
\* whatever a later getInstance is called with; an instance built without a
\* usage strategy never has a usage record.
C15_FirstConstructionWins ==
    [][/\ instance # NoInstance =>
              /\ instance' = instance
              /\ usageStrategy' = usageStrategy
       /\ (instance' # NoInstance /\ ~usageStrategy') =>
              \A t \in Titles : usage'[t] = NoRecord]_vars

C15_Witness ==
    /\ instance = [vault |-> "vault", settings |-> "settings"]
    /\ ~usageStrategy
    /\ call.asked = <<"other vault", "other settings", TRUE>>
    /\ clock > 0
    /\ files["P"] # NoDoc
    /\ usage["P"] = NoRecord

\* whether the last call started its two concurrent writes
WritesStarted == call.op \in {"update", "delete"} /\ call.vaultWrite # "none"

\* C16: an update with a title change and a delete start both writes at once,
\* and either write can settle first; the call has succeeded only when both
\* writes are done, has failed as soon as one of them has failed, and after a
\* failed write no content is written.
C16_BothWritesBeforeSuccess ==
    /\ [](WritesStarted =>
            /\ outcome = "ok" => (call.usageWrite = "done" /\ call.vaultWrite = "done")
            /\ (call.usageWrite = "failed" \/ call.vaultWrite = "failed") =>
                   outcome = "error"
            /\ (call.usageWrite = "pending" /\ call.vaultWrite = "pending") =>
                   /\ ENABLED UsageWriteSettles(TRUE)
                   /\ ENABLED VaultWriteSettles(TRUE))
    /\ [][/\ (WritesStarted' /\ call'.vaultWrite = "pending" /\ outcome # "pending") =>
                 /\ call'.usageWrite = (IF usageStrategy THEN "pending" ELSE "done")
                 /\ outcome' = "pending"
          /\ (WritesStarted /\ call.op = "update" /\ outcome = "error" /\ call' = call) =>
                 files' = files
          /\ (WritesStarted /\ call.op = "update" /\ outcome' = "error") =>
                 \/ files' = files
                 \/ files' = Renamed(files, call.origin, call.title)]_vars

C16_Witness ==
    /\ usageStrategy
    /\ call.op = "update"
    /\ call.origin = "P"
    /\ call.title = "Q"
    /\ call.content = "new"
    /\ call.vaultWrite = "done"
    /\ call.usageWrite = "failed"
    /\ outcome = "error"
    /\ files["P"] = NoDoc
    /\ files["Q"] = "old"

\* C20: what getAllPrompts returned is what getPrompt returns: every prompt
\* of the list is the document of its title, and every document of a title is
\* in the list.
C20_ListAgreesWithGet ==
    call.op = "list" =>
        /\ \A i \in 1..Len(call.listed) :
               files[call.listed[i].title] = call.listed[i].content
        /\ \A t \in Titles :
               files[t] # NoDoc =>
                   \E i \in 1..Len(call.listed) :
                       call.listed[i] = [title |-> t, content |-> files[t]]

=============================================================================
